---- MODULE Spec2Model ----
(***************************************************************************)
(* A model of the chess board of src/chess.py: the board object built by   *)
(* board.__init__ from a FEN-like string, the pieces' getMoves, and        *)
(* board.checkMove / board.move.                                           *)
(*                                                                         *)
(* A Python list is a function on 0..len-1; a Python string is a sequence  *)
(* of one-character strings.  An operation that can raise returns a record *)
(* whose exc field names the exception ("None" when it returns normally).  *)
(***************************************************************************)
EXTENDS Integers, Sequences, FiniteSets, TLC

VARIABLES boardPieces, castling, playerTurn, enPassantSquare,
          fiftyMovesClock, fullMoveClock, pre, call, ncalls

vars == <<boardPieces, castling, playerTurn, enPassantSquare,
          fiftyMovesClock, fullMoveClock, pre, call, ncalls>>

\* ------------------------------------------------------------------ bounds

\* The number of board.move calls a behaviour makes.
MaxCalls == 2

\* ------------------------------------------------------- program constants

\* board.boardSideLength
boardSideLength == 8

\* Python's None where an int is expected (self.enPassantSquare = None).
NoSquare == -1

\* Python's None in a cell of boardPieces.
None == [kind |-> "None", colour |-> "None", position |-> -1, id |-> -1]

\* board.pieceMappings: the letter of a piece to its class.
pieceMappings ==
    [c \in {"k", "q", "r", "b", "n", "p"} |->
        CASE c = "k" -> "king"
          [] c = "q" -> "queen"
          [] c = "r" -> "rook"
          [] c = "b" -> "bishop"
          [] c = "n" -> "knight"
          [] c = "p" -> "pawn"]

\* ------------------------------------------------------- Python primitives

UpperCase == <<"A", "B", "C", "D", "E", "F", "G", "H", "I", "J", "K", "L", "M",
               "N", "O", "P", "Q", "R", "S", "T", "U", "V", "W", "X", "Y", "Z">>

LowerCase == <<"a", "b", "c", "d", "e", "f", "g", "h", "i", "j", "k", "l", "m",
               "n", "o", "p", "q", "r", "s", "t", "u", "v", "w", "x", "y", "z">>

DecimalDigits == <<"0", "1", "2", "3", "4", "5", "6", "7", "8", "9">>

\* str.isupper of one character
isupper(c) == \E i \in DOMAIN UpperCase : UpperCase[i] = c

\* str.casefold of one character
casefold(c) ==
    IF isupper(c)
    THEN LowerCase[CHOOSE i \in DOMAIN UpperCase : UpperCase[i] = c]
    ELSE c

\* str.isdecimal of one character
isdecimal(c) == \E i \in DOMAIN DecimalDigits : DecimalDigits[i] = c

\* int of one decimal character
digit(c) == (CHOOSE i \in DOMAIN DecimalDigits : DecimalDigits[i] = c) - 1

\* int(s) of a string of decimal characters
RECURSIVE int(_)
int(s) ==
    IF Len(s) = 1 THEN digit(s[1])
    ELSE 10 * int(SubSeq(s, 1, Len(s) - 1)) + digit(s[Len(s)])

\* ord of a lower-case letter ('a' is 97)
ord(c) == 96 + (CHOOSE i \in DOMAIN LowerCase : LowerCase[i] = c)

\* chr of the code of a lower-case letter
chr(code) == LowerCase[code - 96]

\* str(n) of an integer
RECURSIVE str(_)
str(n) ==
    IF n < 0 THEN <<"-">> \o str(-n)
    ELSE IF n < 10 THEN <<DecimalDigits[n + 1]>>
    ELSE str(n \div 10) \o <<DecimalDigits[(n % 10) + 1]>>

\* len(list)
len(list) == Cardinality(DOMAIN list)

\* Whether list[i] is an element: Python counts a negative index from the end.
InRange(list, i) == i >= -len(list) /\ i < len(list)

\* The place list[i] names, for an index in range.
Place(list, i) == IF i < 0 THEN i + len(list) ELSE i

\* list[i], for an index in range.
At(list, i) == list[Place(list, i)]

\* The list whose elements are those of a sequence, in order (from index 0).
ListOf(seq) == [i \in 0..(Len(seq) - 1) |-> seq[i + 1]]

\* ------------------------------------------------------------------ pieces

\* piece.__init__
piece(kind, boardIndex, colour) ==
    [kind |-> kind, colour |-> colour, position |-> boardIndex, id |-> boardIndex]

\* piece.move
pieceMove(p, newBoardIndex) == [p EXCEPT !.position = newBoardIndex]

\* A move list (Python's legalMoves) is a sequence, in the order of the appends.
NoMoves == <<>>

\* What getMoves returns: the list, or the exception it raised.
Returned(moves) == [exc |-> "None", moves |-> moves]

Raised(exc) == [exc |-> exc, moves |-> NoMoves]

\* kingGetMoves with the right flag always set: a king on the h file steps
\* onto the a file.
kingGetMovesWrapping(self, obstacles, sideLength) ==
    LET up    == self.position - sideLength >= 0
        down  == self.position + sideLength < sideLength * sideLength
        left  == self.position % sideLength >= 1
        right == self.position % sideLength <= 7
        m1 == IF up /\ left THEN <<self.position - sideLength - 1>> ELSE <<>>
        m2 == IF up THEN <<self.position - sideLength>> ELSE <<>>
        m3 == IF up /\ right THEN <<self.position - sideLength + 1>> ELSE <<>>
        m4 == IF right THEN <<self.position + 1>> ELSE <<>>
        m5 == IF down /\ right THEN <<self.position + sideLength + 1>> ELSE <<>>
        m6 == IF down THEN <<self.position + sideLength>> ELSE <<>>
        m7 == IF down /\ left THEN <<self.position + sideLength - 1>> ELSE <<>>
        m8 == IF left THEN <<self.position - 1>> ELSE <<>>
    IN  Returned(m1 \o m2 \o m3 \o m4 \o m5 \o m6 \o m7 \o m8)

\* king.getMoves
kingGetMoves(self, obstacles, sideLength) ==
    LET up    == self.position - sideLength >= 0
        down  == self.position + sideLength < sideLength * sideLength
        left  == self.position % sideLength >= 1
        right == self.position % sideLength <= 6
        m1 == IF up /\ left THEN <<self.position - sideLength - 1>> ELSE <<>>
        m2 == IF up THEN <<self.position - sideLength>> ELSE <<>>
        m3 == IF up /\ right THEN <<self.position - sideLength + 1>> ELSE <<>>
        m4 == IF right THEN <<self.position + 1>> ELSE <<>>
        m5 == IF down /\ right THEN <<self.position + sideLength + 1>> ELSE <<>>
        m6 == IF down THEN <<self.position + sideLength>> ELSE <<>>
        m7 == IF down /\ left THEN <<self.position + sideLength - 1>> ELSE <<>>
        m8 == IF left THEN <<self.position - 1>> ELSE <<>>
    IN  Returned(m1 \o m2 \o m3 \o m4 \o m5 \o m6 \o m7 \o m8)

\* The edge test of one of the rook's four loops.
rookAtEdge(currentIndex, direction, sideLength) ==
    CASE direction = "right" -> currentIndex % sideLength >= sideLength - 1
      [] direction = "left"  -> currentIndex % sideLength <= 0
      [] direction = "up"    -> currentIndex - sideLength <= 0
      [] direction = "down"  -> currentIndex + sideLength >= sideLength * sideLength

\* The step of one of the rook's four loops.
rookStep(direction, sideLength) ==
    CASE direction = "right" -> 1
      [] direction = "left"  -> -1
      [] direction = "up"    -> -sideLength
      [] direction = "down"  -> sideLength

\* One while loop of rook.getMoves: obstacles[currentIndex] is read first.
RECURSIVE rookWalk(_, _, _, _, _)
rookWalk(obstacles, currentIndex, direction, sideLength, legalMoves) ==
    IF ~InRange(obstacles, currentIndex)
    THEN [exc |-> "IndexError", moves |-> legalMoves]
    ELSE IF At(obstacles, currentIndex)
            \/ rookAtEdge(currentIndex, direction, sideLength)
         THEN [exc |-> "None", moves |-> legalMoves]
         ELSE LET next == currentIndex + rookStep(direction, sideLength)
              IN  rookWalk(obstacles, next, direction, sideLength,
                           Append(legalMoves, next))

\* obstacles[currentIndex] = False, the first statement of the sliding pieces.
clearOwnSquare(obstacles, position) ==
    [obstacles EXCEPT ![Place(obstacles, position)] = FALSE]

\* The next loop of rook.getMoves, run when the loops before it (whose result
\* is sofar) raised nothing; currentIndex is reset to the rook's square.
rookNext(sofar, obstacles, position, direction, sideLength) ==
    IF sofar.exc # "None" THEN sofar
    ELSE rookWalk(obstacles, position, direction, sideLength, sofar.moves)

\* What a getMoves made of loops returns: an exception leaves no list.
Finished(sofar) ==
    IF sofar.exc # "None" THEN Raised(sofar.exc) ELSE Returned(sofar.moves)

\* The four loops of rook.getMoves over the list with the own square cleared:
\* right, left, up, down.
rookLoops(obs, position, sideLength) ==
    Finished(
        rookNext(
            rookNext(
                rookNext(rookWalk(obs, position, "right", sideLength, NoMoves),
                         obs, position, "left", sideLength),
                obs, position, "up", sideLength),
            obs, position, "down", sideLength))

\* rook.getMoves
rookGetMoves(self, obstacles, sideLength) ==
    IF ~InRange(obstacles, self.position) THEN Raised("IndexError")
    ELSE rookLoops(clearOwnSquare(obstacles, self.position), self.position,
                   sideLength)

\* The edge tests of one of the bishop's four loops.
bishopAtEdge(currentIndex, direction, sideLength) ==
    CASE direction = "ne" -> \/ currentIndex % sideLength >= sideLength - 1
                             \/ currentIndex - sideLength < 0
      [] direction = "se" -> \/ currentIndex % sideLength >= sideLength - 1
                             \/ currentIndex + sideLength >= sideLength * sideLength
      [] direction = "sw" -> \/ currentIndex % sideLength <= 0
                             \/ currentIndex + sideLength >= sideLength * sideLength
      [] direction = "nw" -> \/ currentIndex % sideLength <= 0
                             \/ currentIndex - sideLength < 0

\* The step of one of the bishop's four loops.
bishopStep(direction, sideLength) ==
    CASE direction = "ne" -> 1 - sideLength
      [] direction = "se" -> sideLength + 1
      [] direction = "sw" -> sideLength - 1
      [] direction = "nw" -> -sideLength - 1

\* One while loop of bishop.getMoves: the edge tests come first, then
\* obstacles[currentIndex].
RECURSIVE bishopWalk(_, _, _, _, _)
bishopWalk(obstacles, currentIndex, direction, sideLength, legalMoves) ==
    IF bishopAtEdge(currentIndex, direction, sideLength)
    THEN [exc |-> "None", moves |-> legalMoves]
    ELSE IF ~InRange(obstacles, currentIndex)
         THEN [exc |-> "IndexError", moves |-> legalMoves]
         ELSE IF At(obstacles, currentIndex)
              THEN [exc |-> "None", moves |-> legalMoves]
              ELSE LET next == currentIndex + bishopStep(direction, sideLength)
                   IN  bishopWalk(obstacles, next, direction, sideLength,
                                  Append(legalMoves, next))

\* The next loop of bishop.getMoves, as rookNext.
bishopNext(sofar, obstacles, position, direction, sideLength) ==
    IF sofar.exc # "None" THEN sofar
    ELSE bishopWalk(obstacles, position, direction, sideLength, sofar.moves)

\* The four loops of bishop.getMoves over the list with the own square
\* cleared: north east, south east, south west, north west.
bishopLoops(obs, position, sideLength) ==
    Finished(
        bishopNext(
            bishopNext(
                bishopNext(bishopWalk(obs, position, "ne", sideLength, NoMoves),
                           obs, position, "se", sideLength),
                obs, position, "sw", sideLength),
            obs, position, "nw", sideLength))

\* bishop.getMoves
bishopGetMoves(self, obstacles, sideLength) ==
    IF ~InRange(obstacles, self.position) THEN Raised("IndexError")
    ELSE bishopLoops(clearOwnSquare(obstacles, self.position), self.position,
                     sideLength)

\* The sum of the two lists queen.getMoves returns: the rook's, then the
\* bishop's.
queenSum(rookMoves, bishopMoves) ==
    IF rookMoves.exc # "None" THEN Raised(rookMoves.exc)
    ELSE IF bishopMoves.exc # "None" THEN Raised(bishopMoves.exc)
    ELSE Returned(rookMoves.moves \o bishopMoves.moves)

\* queen.getMoves
queenGetMoves(self, obstacles, sideLength) ==
    queenSum(rookGetMoves(self, obstacles, sideLength),
             bishopGetMoves(self, obstacles, sideLength))

\* knightGetMoves with the right-hand edge test dropped from the jumps two
\* ranks up or down: a knight on the h file jumps onto the a file.
knightGetMovesWrapping(self, obstacles, sideLength) ==
    LET pos == self.position
        notLeft  == pos % sideLength # 0
        canUp    == pos - sideLength >= 0
        canDown  == pos + sideLength < sideLength * sideLength
        down2 == IF pos + (2 * sideLength) < sideLength * sideLength
                 THEN (IF notLeft THEN <<pos + (2 * sideLength) - 1>> ELSE <<>>)
                      \o <<pos + (2 * sideLength) + 1>>
                 ELSE <<>>
        up2   == IF pos - (2 * sideLength) >= 0
                 THEN (IF notLeft THEN <<pos - (2 * sideLength) - 1>> ELSE <<>>)
                      \o <<pos - (2 * sideLength) + 1>>
                 ELSE <<>>
        left2 == IF ~(pos % sideLength <= 1)
                 THEN (IF canUp THEN <<pos - 2 - sideLength>> ELSE <<>>)
                      \o (IF canDown THEN <<pos - 2 + sideLength>> ELSE <<>>)
                 ELSE <<>>
        right2 == IF ~(pos % sideLength >= 6)
                  THEN (IF canUp THEN <<pos + 2 - sideLength>> ELSE <<>>)
                       \o (IF canDown THEN <<pos + 2 + sideLength>> ELSE <<>>)
                  ELSE <<>>
    IN  Returned(down2 \o up2 \o left2 \o right2)

\* knight.getMoves
knightGetMoves(self, obstacles, sideLength) ==
    LET pos == self.position
        notLeft  == pos % sideLength # 0
        notRight == pos % sideLength # 7
        canUp    == pos - sideLength >= 0
        canDown  == pos + sideLength < sideLength * sideLength
        down2 == IF pos + (2 * sideLength) < sideLength * sideLength
                 THEN (IF notLeft THEN <<pos + (2 * sideLength) - 1>> ELSE <<>>)
                      \o (IF notRight THEN <<pos + (2 * sideLength) + 1>> ELSE <<>>)
                 ELSE <<>>
        up2   == IF pos - (2 * sideLength) >= 0
                 THEN (IF notLeft THEN <<pos - (2 * sideLength) - 1>> ELSE <<>>)
                      \o (IF notRight THEN <<pos - (2 * sideLength) + 1>> ELSE <<>>)
                 ELSE <<>>
        left2 == IF ~(pos % sideLength <= 1)
                 THEN (IF canUp THEN <<pos - 2 - sideLength>> ELSE <<>>)
                      \o (IF canDown THEN <<pos - 2 + sideLength>> ELSE <<>>)
                 ELSE <<>>
        right2 == IF ~(pos % sideLength >= 6)
                  THEN (IF canUp THEN <<pos + 2 - sideLength>> ELSE <<>>)
                       \o (IF canDown THEN <<pos + 2 + sideLength>> ELSE <<>>)
                  ELSE <<>>
    IN  Returned(down2 \o up2 \o left2 \o right2)

\* pawn.getMoves.  Both diagonal tests read the square straight ahead,
\* obstacles[position -+ sideLength], before their bounds test, so that read
\* happens on every call (a negative index counts from the end of the list).
pawnGetMoves(self, obstacles, sideLength) ==
    LET pos   == self.position
        ahead == IF self.colour = "w" THEN pos - sideLength ELSE pos + sideLength
        off   == IF self.colour = "w"
                 THEN pos - sideLength < 0
                 ELSE pos + sideLength >= sideLength * sideLength
        atLeft  == pos % sideLength <= 0
        atRight == pos % sideLength >= sideLength - 1
    IN  IF ~InRange(obstacles, ahead) THEN Raised("IndexError")
        ELSE LET occupied == At(obstacles, ahead)
                 forward == IF ~(off \/ occupied) THEN <<ahead>> ELSE <<>>
                 dl == IF occupied /\ ~(off \/ atLeft) THEN <<ahead - 1>> ELSE <<>>
                 dr == IF occupied /\ ~(off \/ atRight) THEN <<ahead + 1>> ELSE <<>>
             IN  Returned(forward \o dl \o dr)

\* The dispatch of getMoves on the piece's class.
getMoves(self, obstacles, sideLength) ==
    CASE self.kind = "king"   -> kingGetMoves(self, obstacles, sideLength)
      [] self.kind = "queen"  -> queenGetMoves(self, obstacles, sideLength)
      [] self.kind = "rook"   -> rookGetMoves(self, obstacles, sideLength)
      [] self.kind = "bishop" -> bishopGetMoves(self, obstacles, sideLength)
      [] self.kind = "knight" -> knightGetMoves(self, obstacles, sideLength)
      [] self.kind = "pawn"   -> pawnGetMoves(self, obstacles, sideLength)

\* target in list
Contains(moves, target) == \E i \in DOMAIN moves : moves[i] = target

\* ------------------------------------------------------------------- board

\* What a board method returns: a value, or the exception it raised.
Value(v) == [exc |-> "None", value |-> v]

Exception(exc) == [exc |-> exc, value |-> 0]

\* board.convertSquareToIndex, of a square given as its characters
convertSquareToIndex(sideLength, square) ==
    IF ~(Len(square) >= 2) THEN Exception("Exception")
    ELSE Value((sideLength * (sideLength - int(Tail(square))))
               + (ord(casefold(square[1])) - 97))

\* convertIndexToSquare counting the ranks from the top of the board.
convertIndexToSquareFromTop(sideLength, square) ==
    <<chr((square % sideLength) + 97)>>
    \o str((square \div sideLength) + 1)

\* board.convertIndexToSquare
convertIndexToSquare(sideLength, square) ==
    <<chr((square % sideLength) + 97)>>
    \o str(sideLength - (square \div sideLength))

\* The loop of board.__init__ over the letters of one rank description, from
\* letter k on: a digit d adds d to the line sum and appends one None.  The
\* list under construction is kept as the sequence of its elements.
RECURSIVE parseRank(_, _, _, _)
parseRank(component, k, pieces, chessLineSum) ==
    IF k > Len(component)
    THEN [exc |-> "None", boardPieces |-> pieces, chessLineSum |-> chessLineSum]
    ELSE LET pieceLetter == component[k]
         IN  IF isdecimal(pieceLetter)
             THEN parseRank(component, k + 1, Append(pieces, None),
                            chessLineSum + digit(pieceLetter))
             ELSE IF casefold(pieceLetter) \notin DOMAIN pieceMappings
                  THEN [exc |-> "Exception", boardPieces |-> pieces,
                        chessLineSum |-> chessLineSum]
                  ELSE parseRank(component, k + 1,
                                 Append(pieces,
                                        piece(pieceMappings[casefold(pieceLetter)],
                                              Len(pieces),
                                              IF isupper(pieceLetter) THEN "w" ELSE "b")),
                                 chessLineSum + 1)

\* The loop of board.__init__ over the rank descriptions, from the one at
\* componentsIndex (0-based) on.
RECURSIVE parseRanks(_, _, _, _)
parseRanks(components, componentsIndex, sideLength, pieces) ==
    IF componentsIndex >= sideLength
    THEN [exc |-> "None", boardPieces |-> pieces]
    ELSE LET r == parseRank(components[componentsIndex + 1], 1, pieces, 0)
         IN  IF r.exc # "None" \/ r.chessLineSum # sideLength
             THEN [exc |-> "Exception", boardPieces |-> r.boardPieces]
             ELSE parseRanks(components, componentsIndex + 1, sideLength,
                             r.boardPieces)

\* The castling rights board.__init__ keeps of the FEN's castling field.
parseCastling(component) ==
    SelectSeq(component, LAMBDA castlingRight : casefold(castlingRight) \in {"q", "k"})

\* board.__init__, of the FEN's components (the string split at blanks and
\* slashes): the board object, or the exception raised.
boardInit(components) ==
    LET sideLength == boardSideLength
    IN  IF Len(components) # sideLength + 5 THEN [exc |-> "Exception"]
        ELSE
        LET parsed == parseRanks(components, 0, sideLength, <<>>)
            ep == IF components[sideLength + 3] # <<"-">>
                  THEN convertSquareToIndex(sideLength, components[sideLength + 3])
                  ELSE Value(NoSquare)
        IN  IF parsed.exc # "None" THEN [exc |-> "Exception"]
            ELSE IF components[sideLength + 1] \notin {<<"w">>, <<"b">>}
                 THEN [exc |-> "Exception"]
            ELSE IF ep.exc # "None" THEN [exc |-> "Exception"]
            ELSE [exc |-> "None",
                  boardPieces |-> ListOf(parsed.boardPieces),
                  castling |-> parseCastling(components[sideLength + 2]),
                  sideLength |-> sideLength,
                  playerTurn |-> components[sideLength + 1][1],
                  enPassantSquare |-> ep.value,
                  fiftyMovesClock |-> int(components[sideLength + 4]),
                  fullMoveClock |-> int(components[sideLength + 5])]

\* The obstruction list checkMove builds: [x != None for x in self.boardPieces]
obstaclesOf(pieces) == [i \in DOMAIN pieces |-> pieces[i] # None]

\* target in <the list getMoves returned>
targetIn(target, got) ==
    IF got.exc # "None" THEN Exception(got.exc)
    ELSE Value(Contains(got.moves, target))

\* board.checkMove
checkMove(self, origin, target) ==
    IF ~InRange(self.boardPieces, origin) THEN Exception("IndexError")
    ELSE IF At(self.boardPieces, origin) = None THEN Exception("AttributeError")
    ELSE targetIn(target, getMoves(At(self.boardPieces, origin),
                                   obstaclesOf(self.boardPieces), 8))

\* _move without its last statement: the moved piece keeps the position it
\* had on origin.
_moveKeepingPosition(pieces, origin, target) ==
    IF ~InRange(pieces, origin) \/ ~InRange(pieces, target)
    THEN [exc |-> "IndexError", boardPieces |-> pieces]
    ELSE LET o == Place(pieces, origin)
             t == Place(pieces, target)
             written == [pieces EXCEPT ![t] = pieces[o]]
             cleared == [written EXCEPT ![o] = None]
         IN  IF cleared[t] = None
             THEN [exc |-> "AttributeError", boardPieces |-> cleared]
             ELSE [exc |-> "None", boardPieces |-> cleared]

\* board.move._move: the three statements in order; the cells it wrote before
\* an exception stay written.
_move(pieces, origin, target) ==
    IF ~InRange(pieces, origin) \/ ~InRange(pieces, target)
    THEN [exc |-> "IndexError", boardPieces |-> pieces]
    ELSE LET o == Place(pieces, origin)
             t == Place(pieces, target)
             written == [pieces EXCEPT ![t] = pieces[o]]
             cleared == [written EXCEPT ![o] = None]
         IN  IF cleared[t] = None
             THEN [exc |-> "AttributeError", boardPieces |-> cleared]
             ELSE [exc |-> "None",
                   boardPieces |-> [cleared EXCEPT ![t] = pieceMove(cleared[t], target)]]

\* earlyReturn with a third return: a board.move that refuses to move a piece
\* of the colour not on turn.
earlyReturnOnTurn(self, origin, target) ==
    IF ~InRange(self.boardPieces, origin) THEN "IndexError"
    ELSE IF At(self.boardPieces, origin) = None THEN "False"
    ELSE IF ~InRange(self.boardPieces, target) THEN "IndexError"
    ELSE IF At(self.boardPieces, target) = None THEN "AttributeError"
    ELSE IF At(self.boardPieces, origin).colour = At(self.boardPieces, target).colour
         THEN "False"
    ELSE IF At(self.boardPieces, origin).colour # self.playerTurn THEN "False"
    ELSE "pass"

\* earlyReturn without its second return: a board.move that lets a piece
\* capture one of its own colour.
earlyReturnNoOwnColour(self, origin, target) ==
    IF ~InRange(self.boardPieces, origin) THEN "IndexError"
    ELSE IF At(self.boardPieces, origin) = None THEN "False"
    ELSE IF ~InRange(self.boardPieces, target) THEN "IndexError"
    ELSE "pass"

\* The two early returns of board.move (moving nothing, capturing own colour):
\* "pass" when neither is taken.
earlyReturn(self, origin, target) ==
    IF ~InRange(self.boardPieces, origin) THEN "IndexError"
    ELSE IF At(self.boardPieces, origin) = None THEN "False"
    ELSE IF ~InRange(self.boardPieces, target) THEN "IndexError"
    ELSE IF At(self.boardPieces, target) = None THEN "AttributeError"
    ELSE IF At(self.boardPieces, origin).colour = At(self.boardPieces, target).colour
         THEN "False"
    ELSE "pass"

\* switchTurn with both branches giving the turn to black.
switchTurnStuck(playerTurn_) == IF playerTurn_ = "w" THEN "b" ELSE "b"

\* The switch of turns that ends a successful board.move.
switchTurn(playerTurn_) == IF playerTurn_ = "w" THEN "b" ELSE "w"

\* The board object after a call of board.move, and how the call ended.
Outcome(result, self) == [result |-> result, self |-> self]

\* The rights a board.move would hold if it derived them anew from the kings'
\* squares after a move: a king on its home square has its kingside right.
rightsRederived(rights, pieces) ==
    rights
    \o (IF InRange(pieces, 60) /\ At(pieces, 60).kind = "king"
           /\ At(pieces, 60).colour = "w" /\ ~Contains(rights, "K")
        THEN <<"K">> ELSE <<>>)
    \o (IF InRange(pieces, 4) /\ At(pieces, 4).kind = "king"
           /\ At(pieces, 4).colour = "b" /\ ~Contains(rights, "k")
        THEN <<"k">> ELSE <<>>)

\* afterMove deriving the castling rights anew after a successful move.
afterMoveRegranting(moved, self, completeAdminTasks) ==
    IF moved.exc # "None"
    THEN [result |-> moved.exc,
          self |-> [self EXCEPT !.boardPieces = moved.boardPieces]]
    ELSE [result |-> "True",
          self |-> [self EXCEPT !.boardPieces = moved.boardPieces,
                                !.castling = rightsRederived(self.castling,
                                                             moved.boardPieces),
                                !.playerTurn = IF completeAdminTasks
                                               THEN switchTurn(self.playerTurn)
                                               ELSE self.playerTurn]]

\* How board.move ends once _move has run (its result is moved): with
\* completeAdminTasks the turn is switched first.
afterMove(moved, self, completeAdminTasks) ==
    IF moved.exc # "None"
    THEN Outcome(moved.exc, [self EXCEPT !.boardPieces = moved.boardPieces])
    ELSE IF completeAdminTasks
         THEN Outcome("True",
                      [self EXCEPT !.boardPieces = moved.boardPieces,
                                   !.playerTurn = switchTurn(self.playerTurn)])
         ELSE Outcome("True", [self EXCEPT !.boardPieces = moved.boardPieces])

\* board.move(origin, target, completeAdminTasks = False)
moveWithoutAdmin(self, origin, target) ==
    afterMove(_move(self.boardPieces, origin, target), self, FALSE)

\* board.move from "if self.checkMove(origin, target)" on (legal is what
\* checkMove returned).  When checkMove is false the next test,
\* isinstance(pawn, self.boardPieces[origin]), has its arguments the wrong way
\* round: its second argument is a piece object, not a class, and isinstance
\* raises TypeError.  The en-passant and castling branches behind it, and
\* _checkCastlingRights, are never run.
afterCheckMove(legal, self, origin, target) ==
    IF legal.exc # "None" THEN Outcome(legal.exc, self)
    ELSE IF legal.value
         THEN afterMove(_move(self.boardPieces, origin, target), self, TRUE)
         ELSE Outcome("TypeError", self)

\* board.move from its two early returns on (early is which one was taken).
afterEarlyReturn(early, self, origin, target) ==
    IF early # "pass" THEN Outcome(early, self)
    ELSE afterCheckMove(checkMove(self, origin, target), self, origin, target)

\* board.move(origin, target, completeAdminTasks = True)
moveWithAdmin(self, origin, target) ==
    afterEarlyReturn(earlyReturn(self, origin, target), self, origin, target)

\* board.move
move(self, origin, target, completeAdminTasks) ==
    IF ~completeAdminTasks
    THEN moveWithoutAdmin(self, origin, target)
    ELSE moveWithAdmin(self, origin, target)

\* ------------------------------------------------- the boards and the calls

EmptyRank == <<"1", "1", "1", "1", "1", "1", "1", "1">>

\* The FEN components before the clocks, given rank 8, rank 5, rank 1, the
\* turn and the castling field; the en-passant target is d6.
Fen(rank8, rank5, rank1, turn, rights) ==
    <<rank8, EmptyRank, EmptyRank, rank5, EmptyRank, EmptyRank, EmptyRank, rank1,
      <<turn>>, rights, <<"d", "6">>, <<"0">>, <<"1">>>>

\* White may castle kingside; the black pawn on d5 has just double-stepped.
FenCastle ==
    Fen(<<"1", "1", "1", "1", "k", "1", "1", "1">>,
        <<"1", "1", "1", "p", "P", "1", "1", "1">>,
        <<"1", "1", "1", "1", "K", "1", "1", "R">>, "w", <<"K", "k">>)

\* The same with a black rook on f8 attacking f1, the king's transit square.
FenCastleThroughCheck ==
    Fen(<<"1", "1", "1", "1", "k", "r", "1", "1">>,
        <<"1", "1", "1", "p", "P", "1", "1", "1">>,
        <<"1", "1", "1", "1", "K", "1", "1", "R">>, "w", <<"K", "k">>)

\* A black rook on f1 between the white king, knight and rook; black to play.
FenCaptures ==
    Fen(<<"1", "1", "1", "1", "k", "1", "1", "1">>,
        <<"1", "1", "1", "p", "P", "1", "1", "1">>,
        <<"1", "1", "1", "1", "K", "r", "N", "R">>, "b", <<"K", "-">>)

\* The castling position written with the usual digits.
FenDigits ==
    <<<<"4", "k", "3">>, <<"8">>, <<"8">>, <<"3", "p", "P", "3">>, <<"8">>, <<"8">>,
      <<"8">>, <<"4", "K", "2", "R">>,
      <<"w">>, <<"K", "k">>, <<"d", "6">>, <<"0">>, <<"1">>>>

\* A FEN board.__init__ refuses: its first rank describes seven squares.
FenShortRank ==
    Fen(<<"1", "1", "1", "1", "k", "1", "1">>,
        <<"1", "1", "1", "p", "P", "1", "1", "1">>,
        <<"1", "1", "1", "1", "K", "1", "1", "R">>, "w", <<"K">>)

Fens == {FenCastle, FenCastleThroughCheck, FenCaptures, FenDigits, FenShortRank}

\* The squares the calls name: d6, e5, e1, f1, g1, h1.
Squares == {19, 28, 60, 61, 62, 63}

\* The board object as a record of its fields.
Self ==
    [boardPieces |-> boardPieces, castling |-> castling,
     sideLength |-> boardSideLength, playerTurn |-> playerTurn,
     enPassantSquare |-> enPassantSquare, fiftyMovesClock |-> fiftyMovesClock,
     fullMoveClock |-> fullMoveClock]

Init ==
    \E components \in Fens :
        LET b == boardInit(components)
        IN  /\ b.exc = "None"
            /\ boardPieces = b.boardPieces
            /\ castling = b.castling
            /\ playerTurn = b.playerTurn
            /\ enPassantSquare = b.enPassantSquare
            /\ fiftyMovesClock = b.fiftyMovesClock
            /\ fullMoveClock = b.fullMoveClock
            /\ pre = [boardPieces |-> b.boardPieces, castling |-> b.castling,
                      sideLength |-> b.sideLength, playerTurn |-> b.playerTurn,
                      enPassantSquare |-> b.enPassantSquare,
                      fiftyMovesClock |-> b.fiftyMovesClock,
                      fullMoveClock |-> b.fullMoveClock]
            /\ call = [op |-> "init", origin |-> 0, target |-> 0,
                       completeAdminTasks |-> FALSE, result |-> "None"]
            /\ ncalls = 0

\* The state after a call of board.move that ended as out, with the board
\* before the call kept in pre.
Called(out, origin, target, completeAdminTasks) ==
    /\ boardPieces' = out.self.boardPieces
    /\ castling' = out.self.castling
    /\ playerTurn' = out.self.playerTurn
    /\ enPassantSquare' = out.self.enPassantSquare
    /\ fiftyMovesClock' = out.self.fiftyMovesClock
    /\ fullMoveClock' = out.self.fullMoveClock
    /\ pre' = Self
    /\ call' = [op |-> "move", origin |-> origin, target |-> target,
                completeAdminTasks |-> completeAdminTasks,
                result |-> out.result]
    /\ ncalls' = ncalls + 1

\* One call of board.move.
Move(origin, target, completeAdminTasks) ==
    /\ ncalls < MaxCalls
    /\ Called(move(Self, origin, target, completeAdminTasks),
              origin, target, completeAdminTasks)

Next ==
    \E origin \in Squares, target \in Squares, completeAdminTasks \in BOOLEAN :
        Move(origin, target, completeAdminTasks)

Spec == Init /\ [][Next]_vars

\* ------------------------------------------------------------------ claims

\* The last call was board.move(origin, target, completeAdminTasks = True).
AdminCall == call.op = "move" /\ call.completeAdminTasks

\* The last call was board.move(origin, target, completeAdminTasks = False).
PlainCall == call.op = "move" /\ ~call.completeAdminTasks

\* The cell exists and holds a piece.
HoldsPiece(pieces, square) ==
    InRange(pieces, square) /\ At(pieces, square) # None

\* The cell exists and is empty.
IsEmpty(pieces, square) ==
    InRange(pieces, square) /\ At(pieces, square) = None

\* Both cells hold pieces, of one colour.
SameColour(pieces, origin, target) ==
    /\ HoldsPiece(pieces, origin)
    /\ HoldsPiece(pieces, target)
    /\ At(pieces, origin).colour = At(pieces, target).colour

\* Cells, turn, castling rights, en-passant target and clocks are as before
\* the last call.
NothingChanged == Self = pre

\* checkMove(origin, target) holds on the board before the last call.
CheckMoveHeld == checkMove(pre, call.origin, call.target) = Value(TRUE)

\* A piece of colour by could move to square: some checkMove from one of its
\* cells holds.
Attacked(self, square, by) ==
    \E i \in DOMAIN self.boardPieces :
        /\ self.boardPieces[i] # None
        /\ self.boardPieces[i].colour = by
        /\ checkMove(self, i, square) = Value(TRUE)

Opponent(colour) == IF colour = "w" THEN "b" ELSE "w"

\* The pawn on origin may capture en passant onto target: target is the
\* en-passant square, empty, and a forward diagonal of origin.
EnPassantCapture(self, origin, target) ==
    /\ HoldsPiece(self.boardPieces, origin)
    /\ At(self.boardPieces, origin).kind = "pawn"
    /\ self.enPassantSquare # NoSquare
    /\ target = self.enPassantSquare
    /\ IsEmpty(self.boardPieces, target)
    /\ LET ahead == IF At(self.boardPieces, origin).colour = "w"
                    THEN origin - boardSideLength
                    ELSE origin + boardSideLength
       IN  \/ origin % boardSideLength > 0 /\ target = ahead - 1
           \/ origin % boardSideLength < boardSideLength - 1 /\ target = ahead + 1

\* A legal kingside castle of the king on origin: king and rook on their home
\* squares, the two squares between them empty, the right present, neither
\* the transit nor the final square attacked.
KingsideCastle(self, origin) ==
    /\ HoldsPiece(self.boardPieces, origin)
    /\ At(self.boardPieces, origin).kind = "king"
    /\ LET colour == At(self.boardPieces, origin).colour
       IN  /\ origin = (IF colour = "w" THEN 60 ELSE 4)
           /\ HoldsPiece(self.boardPieces, origin + 3)
           /\ At(self.boardPieces, origin + 3).kind = "rook"
           /\ At(self.boardPieces, origin + 3).colour = colour
           /\ IsEmpty(self.boardPieces, origin + 1)
           /\ IsEmpty(self.boardPieces, origin + 2)
           /\ Contains(self.castling, IF colour = "w" THEN "K" ELSE "k")
           /\ ~Attacked(self, origin + 1, Opponent(colour))
           /\ ~Attacked(self, origin + 2, Opponent(colour))

\* The king on origin tries to castle: target is two files to either side.
CastleAttempt(self, origin, target) ==
    /\ HoldsPiece(self.boardPieces, origin)
    /\ At(self.boardPieces, origin).kind = "king"
    /\ target \in {origin + 2, origin - 2}

\* C1: a board.move with completeAdminTasks that returns True hands the turn
\* to the other colour (w to b, b to w); one that returns False or raises
\* leaves playerTurn as it was.
C1_TurnAlternation ==
    AdminCall =>
        IF call.result = "True"
        THEN /\ pre.playerTurn = "w" => playerTurn = "b"
             /\ pre.playerTurn = "b" => playerTurn = "w"
        ELSE playerTurn = pre.playerTurn

\* Two successful moves in a row: the second hands the turn from white back
\* to black.
C1_Witness ==
    /\ AdminCall
    /\ ncalls = 2
    /\ call.result = "True"
    /\ pre.playerTurn = "w"
    /\ playerTurn = "b"

\* C2 (as claimed): a rule-enforced move of a piece to a square of the board
\* that is not legal (checkMove does not hold, it is no en-passant capture and
\* no castling attempt) returns False, raises nothing and changes nothing.
C2_IllegalMoveReturnsFalse ==
    ( /\ AdminCall
      /\ HoldsPiece(pre.boardPieces, call.origin)
      /\ InRange(pre.boardPieces, call.target)
      /\ ~CheckMoveHeld
      /\ ~EnPassantCapture(pre, call.origin, call.target)
      /\ ~CastleAttempt(pre, call.origin, call.target) )
    => (call.result = "False" /\ NothingChanged)

\* C3: board.move with completeAdminTasks returns False and changes nothing
\* when origin is an empty cell, and when origin and target hold pieces of one
\* colour.
C3_ImmediateRejection ==
    ( /\ AdminCall
      /\ \/ IsEmpty(pre.boardPieces, call.origin)
         \/ SameColour(pre.boardPieces, call.origin, call.target) )
    => (call.result = "False" /\ NothingChanged)

\* A piece was sent to a square it could move to by checkMove, held by a piece
\* of its own colour, and the call returned False.
C3_Witness ==
    /\ AdminCall
    /\ SameColour(pre.boardPieces, call.origin, call.target)
    /\ call.origin # call.target
    /\ CheckMoveHeld
    /\ call.result = "False"
    /\ NothingChanged

\* C4 (as claimed): when origin holds a piece, target is empty or holds an
\* enemy piece and checkMove holds, the move returns True, the piece stands on
\* target with that position, origin is empty and every other cell is as it
\* was.
C4_CheckedMoveRelocates ==
    ( /\ AdminCall
      /\ HoldsPiece(pre.boardPieces, call.origin)
      /\ InRange(pre.boardPieces, call.target)
      /\ ~SameColour(pre.boardPieces, call.origin, call.target)
      /\ CheckMoveHeld )
    => /\ call.result = "True"
       /\ boardPieces[call.target]
              = [pre.boardPieces[call.origin] EXCEPT !.position = call.target]
       /\ boardPieces[call.origin] = None
       /\ \A i \in DOMAIN pre.boardPieces :
              i \notin {call.origin, call.target}
                  => boardPieces[i] = pre.boardPieces[i]

\* C5 (as claimed): board.move without completeAdminTasks returns True for
\* every origin and target that are cells of the board, leaves what was on
\* origin on target (its position set to target) and origin empty, and leaves
\* turn, castling rights, en-passant target and clocks alone.
C5_PlainMoveAlwaysSucceeds ==
    ( /\ PlainCall
      /\ InRange(pre.boardPieces, call.origin)
      /\ InRange(pre.boardPieces, call.target) )
    =>  /\ call.result = "True"
        /\ boardPieces[call.origin] = None
        /\ boardPieces[call.target].id = pre.boardPieces[call.origin].id
        /\ boardPieces[call.target].position = call.target
        /\ playerTurn = pre.playerTurn
        /\ castling = pre.castling
        /\ enPassantSquare = pre.enPassantSquare
        /\ fiftyMovesClock = pre.fiftyMovesClock
        /\ fullMoveClock = pre.fullMoveClock

\* C6 (as claimed): in a legal kingside-castle position the move of the king
\* two files to the right returns True, the king ends on origin + 2, the rook
\* on origin + 1, and the colour's kingside right is gone.
C6_KingsideCastle ==
    ( /\ AdminCall
      /\ KingsideCastle(pre, call.origin)
      /\ call.target = call.origin + 2 )
    => /\ call.result = "True"
       /\ boardPieces[call.origin + 2].id = pre.boardPieces[call.origin].id
       /\ boardPieces[call.origin + 1].id = pre.boardPieces[call.origin + 3].id
       /\ ~Contains(castling,
                    IF pre.boardPieces[call.origin].colour = "w" THEN "K" ELSE "k")

\* C7 (as claimed): a castling attempt whose transit or final square is
\* attacked returns False, with every cell and the turn as before.
C7_CastleThroughCheckRejected ==
    ( /\ AdminCall
      /\ CastleAttempt(pre, call.origin, call.target)
      /\ LET enemy == Opponent(At(pre.boardPieces, call.origin).colour)
         IN  \/ Attacked(pre, (call.origin + call.target) \div 2, enemy)
             \/ Attacked(pre, call.target, enemy) )
    => /\ call.result = "False"
       /\ boardPieces = pre.boardPieces
       /\ playerTurn = pre.playerTurn

\* C8 (as claimed): a pawn sent to the empty en-passant square on its forward
\* diagonal makes the move return True and ends on that square, and the
\* square of the pawn that double-stepped (target + N for a white capturer,
\* target - N for a black one) is empty.
C8_EnPassantCapture ==
    ( /\ AdminCall
      /\ EnPassantCapture(pre, call.origin, call.target) )
    => /\ call.result = "True"
       /\ boardPieces[call.target].id = pre.boardPieces[call.origin].id
       /\ boardPieces[IF pre.boardPieces[call.origin].colour = "w"
                      THEN call.target + boardSideLength
                      ELSE call.target - boardSideLength] = None

\* C9: after a call of board.move, with or without completeAdminTasks and
\* however it ended, every castling right held was held before the call.
C9_CastlingNeverGrows ==
    call.op = "move" =>
        \A i \in DOMAIN castling : Contains(pre.castling, castling[i])

\* A king has moved off its home square with a successful move, and the
\* rights are those held before.
C9_Witness ==
    /\ call.op = "move"
    /\ call.result = "True"
    /\ HoldsPiece(pre.boardPieces, call.origin)
    /\ At(pre.boardPieces, call.origin).kind = "king"
    /\ castling # <<>>
    /\ castling = pre.castling

\* C10 (as claimed): after a successful rule-enforced move made while an
\* en-passant square was set, enPassantSquare is no longer that square.
C10_EnPassantSquareExpires ==
    ( /\ AdminCall
      /\ call.result = "True"
      /\ pre.enPassantSquare # NoSquare )
    => enPassantSquare # pre.enPassantSquare

\* The squares a rank description stands for when a digit d stands for d
\* consecutive empty squares ("1" is an empty square).
RECURSIVE rankSquares(_)
rankSquares(component) ==
    IF component = <<>> THEN <<>>
    ELSE (IF isdecimal(Head(component))
          THEN [i \in 1..digit(Head(component)) |-> "1"]
          ELSE <<Head(component)>>)
         \o rankSquares(Tail(component))

\* Every piece letter of the FEN stands in the cell of its rank and file: the
\* letter at file f of the r-th rank description in cell r * N + f.
PlacedAsWritten(components, pieces) ==
    \A r \in 0..(boardSideLength - 1) :
        \A f \in 0..(boardSideLength - 1) :
            LET written == rankSquares(components[r + 1])
                cell == (r * boardSideLength) + f
            IN  (f + 1 <= Len(written) /\ ~isdecimal(written[f + 1]))
                => /\ HoldsPiece(pieces, cell)
                   /\ At(pieces, cell).kind = pieceMappings[casefold(written[f + 1])]
                   /\ At(pieces, cell).colour
                          = (IF isupper(written[f + 1]) THEN "w" ELSE "b")

\* The board is the one board.__init__ builds of these FEN components.
BuiltFrom(components) ==
    /\ ncalls = 0
    /\ boardInit(components).exc = "None"
    /\ boardInit(components).boardPieces = boardPieces

\* C11 (as claimed): the piece array of a board built from an accepted FEN
\* has N * N = 64 cells, with every piece in the cell of its rank and file,
\* and still has 64 cells after every call of board.move.
C11_SixtyFourCells ==
    /\ len(boardPieces) = boardSideLength * boardSideLength
    /\ \A components \in Fens :
           BuiltFrom(components) => PlacedAsWritten(components, boardPieces)

\* C17: in every reachable state of the board (after construction and after
\* every call of board.move, with or without completeAdminTasks, also one
\* that returned False or raised) a piece's position is the index of its cell
\* and no piece object stands in two cells.
C17_PositionIsIndex ==
    \A i \in DOMAIN boardPieces :
        boardPieces[i] # None =>
            /\ boardPieces[i].position = i
            /\ \A j \in DOMAIN boardPieces :
                   j # i => boardPieces[j].id # boardPieces[i].id

\* Two calls have returned True, the second without completeAdminTasks, and
\* the piece it moved stands on target, away from the cell it was made on,
\* with origin empty.
C17_Witness ==
    /\ ncalls = 2
    /\ PlainCall
    /\ call.result = "True"
    /\ call.origin # call.target
    /\ boardPieces[call.origin] = None
    /\ boardPieces[call.target].id = pre.boardPieces[call.origin].id
    /\ boardPieces[call.target].id # call.target
    /\ boardPieces[call.target].position = call.target

\* The board with the turn given to the other colour, all else equal.
OtherTurn(self) == [self EXCEPT !.playerTurn = Opponent(self.playerTurn)]

\* The outcome of a call ended as the last call did, with the same cells.
SameOutcome(out) ==
    /\ out.result = call.result
    /\ out.self.boardPieces = boardPieces

\* C19: board.move with completeAdminTasks, called with the same origin and
\* target on the board as it was before the last call but with the turn given
\* to the other colour, ends the same way (same return value or same
\* exception) and leaves the same cells.
C19_MoveIgnoresTurn ==
    AdminCall =>
        SameOutcome(move(OtherTurn(pre), call.origin, call.target, TRUE))

\* A piece of the colour not on turn was moved: the call returned True and the
\* piece stands on target.
C19_Witness ==
    /\ AdminCall
    /\ call.result = "True"
    /\ pre.boardPieces[call.origin].colour # pre.playerTurn
    /\ boardPieces[call.target].id = pre.boardPieces[call.origin].id

\* ------------------------------------------------------ the calls of getMoves

\* The fields of a board object as board.__init__ declares them, before it
\* reads the FEN: the pieces' getMoves and the conversions need no board.
NoBoard ==
    /\ boardPieces = ListOf(<<>>)
    /\ castling = <<>>
    /\ playerTurn = "None"
    /\ enPassantSquare = NoSquare
    /\ fiftyMovesClock = 0
    /\ fullMoveClock = 1

\* The squares of the board, as indices.
Indices == 0..((boardSideLength * boardSideLength) - 1)

\* The obstruction list, one entry per square, that marks these squares.
Mask(occupied) == [i \in Indices |-> i \in occupied]

\* The squares a list marks occupied.
Occupied(obstacles) == {i \in DOMAIN obstacles : obstacles[i]}

\* The squares next to a square in the ranks above and below it (by index,
\* so across the board's edge too).
Near(position) ==
    {position - 9, position - 8, position - 7,
     position + 7, position + 8, position + 9} \cap Indices

\* The sets of marked squares getMoves is called with for a piece on
\* position: none, every single square, every set of squares near the piece
\* in the ranks above and below, and all squares.
Occupations(position) ==
    {{}} \cup {{q} : q \in Indices} \cup (SUBSET Near(position)) \cup {Indices}

Kinds == {"king", "queen", "rook", "bishop", "knight", "pawn"}

\* The list getMoves leaves to its caller: rook and bishop (and so the queen)
\* write False on the piece's own square of the list they are given.
obstaclesAfter(self, obstacles) ==
    IF self.kind \in {"queen", "rook", "bishop"} /\ InRange(obstacles, self.position)
    THEN clearOwnSquare(obstacles, self.position)
    ELSE obstacles

\* A piece and an obstruction list are given; nothing has been called.
InitGetMoves ==
    /\ NoBoard
    /\ ncalls = 0
    /\ \E kind \in Kinds, colour \in {"w", "b"}, position \in Indices :
           \E occupied \in Occupations(position) :
               pre = [self |-> piece(kind, position, colour),
                      obstacles |-> Mask(occupied),
                      sideLength |-> boardSideLength]
    /\ call = [op |-> "given", result |-> Returned(NoMoves),
               obstacles |-> pre.obstacles]

\* One call self.getMoves(obstacles, sideLength) of the piece given.
GetMoves ==
    /\ call.op = "given"
    /\ call' = [op |-> "getMoves",
                result |-> getMoves(pre.self, pre.obstacles, pre.sideLength),
                obstacles |-> obstaclesAfter(pre.self, pre.obstacles)]
    /\ ncalls' = ncalls + 1
    /\ UNCHANGED <<boardPieces, castling, playerTurn, enPassantSquare,
                   fiftyMovesClock, fullMoveClock, pre>>

SpecGetMoves == InitGetMoves /\ [][GetMoves]_vars

\* ------------------------------------------------- the geometry of the claims

\* The file (0 is the leftmost) and the rank (0 is the topmost) of a square.
File(square) == square % boardSideLength

Rank(square) == square \div boardSideLength

Abs(n) == IF n < 0 THEN -n ELSE n

Sign(n) == IF n < 0 THEN -1 ELSE IF n > 0 THEN 1 ELSE 0

\* The square of a file and a rank of the board.
SquareAt(file, rank) == (rank * boardSideLength) + file

\* The squares a list of moves names.
MoveSet(moves) == {moves[i] : i \in DOMAIN moves}

\* The last call was getMoves, of a piece of this kind.
GetMovesOf(kind) == call.op = "getMoves" /\ pre.self.kind = kind

\* getMoves returned a list that names exactly these squares, each once.
ReturnedExactly(squares) ==
    /\ call.result.exc = "None"
    /\ MoveSet(call.result.moves) = squares
    /\ Len(call.result.moves) = Cardinality(squares)

\* The square is on a rank or file through position (a rook's rays).
OnStraight(position, square) ==
    /\ square # position
    /\ \/ File(square) = File(position)
       \/ Rank(square) = Rank(position)

\* The square is on a diagonal through position (a bishop's rays).
OnDiagonal(position, square) ==
    /\ square # position
    /\ Abs(File(square) - File(position)) = Abs(Rank(square) - Rank(position))

\* The square is on a ray of a sliding piece of this kind on position.
OnRay(kind, position, square) ==
    CASE kind = "rook"   -> OnStraight(position, square)
      [] kind = "bishop" -> OnDiagonal(position, square)
      [] kind = "queen"  -> OnStraight(position, square)
                            \/ OnDiagonal(position, square)

\* The squares strictly between position and a square on one of its rays.
Between(position, square) ==
    LET df == File(square) - File(position)
        dr == Rank(square) - Rank(position)
        n  == IF Abs(df) > Abs(dr) THEN Abs(df) ELSE Abs(dr)
    IN  {SquareAt(File(position) + (k * Sign(df)), Rank(position) + (k * Sign(dr))) :
             k \in 1..(n - 1)}

\* The squares of the rays a sliding piece reaches: those with no marked
\* square between the piece and them.  A marked square on a ray is reached,
\* the squares beyond it are not, and a ray with no marked square is reached
\* up to the edge.
Reached(kind, position, occupied) ==
    {square \in Indices :
        /\ OnRay(kind, position, square)
        /\ Between(position, square) \cap occupied = {}}

\* C13 (as claimed): for a rook, bishop or queen and a list that marks one
\* square, on one of the piece's rays, getMoves returns every square between
\* the piece and the marked square, the marked square, no square beyond it,
\* and in the other directions every square up to the edge of the board.
C13_SlidingStopsAtObstruction ==
    \A kind \in {"rook", "bishop", "queen"} :
        ( /\ GetMovesOf(kind)
          /\ Cardinality(Occupied(pre.obstacles)) = 1
          /\ \E q \in Occupied(pre.obstacles) : OnRay(kind, pre.self.position, q) )
        => /\ call.result.exc = "None"
           /\ \A square \in Indices :
                  OnRay(kind, pre.self.position, square) =>
                      ( Contains(call.result.moves, square)
                        <=> square \in Reached(kind, pre.self.position,
                                               Occupied(pre.obstacles)) )

\* The square straight ahead of a pawn.
Ahead(self) ==
    IF self.colour = "w" THEN self.position - boardSideLength
    ELSE self.position + boardSideLength

\* What the claim has pawn.getMoves return: the square ahead if it is not
\* marked, and each forward diagonal that is on the board and marked.
PawnCandidates(self, occupied) ==
    (IF Ahead(self) \notin occupied THEN {Ahead(self)} ELSE {})
    \cup (IF File(self.position) > 0 /\ (Ahead(self) - 1) \in occupied
          THEN {Ahead(self) - 1} ELSE {})
    \cup (IF File(self.position) < boardSideLength - 1 /\ (Ahead(self) + 1) \in occupied
          THEN {Ahead(self) + 1} ELSE {})

\* C14 (as claimed): for a pawn with a rank ahead of it, getMoves returns
\* exactly the square ahead iff it is not marked, plus each forward diagonal
\* iff that square is on the board and is itself marked.
C14_PawnCandidates ==
    ( /\ GetMovesOf("pawn")
      /\ Ahead(pre.self) \in Indices )
    => ReturnedExactly(PawnCandidates(pre.self, Occupied(pre.obstacles)))

\* The squares a knight's jump from position reaches on the board.
KnightSquares(position) ==
    {square \in Indices :
        LET df == Abs(File(square) - File(position))
            dr == Abs(Rank(square) - Rank(position))
        IN  (df = 1 /\ dr = 2) \/ (df = 2 /\ dr = 1)}

\* The corners of the board.
Corners ==
    {SquareAt(f, r) : f \in {0, boardSideLength - 1}, r \in {0, boardSideLength - 1}}

\* The squares not on the edge of the board.
Inner ==
    {square \in Indices :
        /\ File(square) \in 1..(boardSideLength - 2)
        /\ Rank(square) \in 1..(boardSideLength - 2)}

\* The squares with two files and two ranks on every side.
Central ==
    {square \in Indices :
        /\ File(square) \in 2..(boardSideLength - 3)
        /\ Rank(square) \in 2..(boardSideLength - 3)}

\* C15: for a knight on any square and any obstruction list, getMoves returns
\* exactly the squares of the board one file and two ranks, or two files and
\* one rank, away, whatever the list marks: 8 squares from a central square,
\* 2 from a corner.
C15_KnightJumps ==
    GetMovesOf("knight") =>
        /\ ReturnedExactly(KnightSquares(pre.self.position))
        /\ pre.self.position \in Central => Len(call.result.moves) = 8
        /\ pre.self.position \in Corners => Len(call.result.moves) = 2

\* A knight in the corner h1, with both squares it jumps to marked and the
\* squares next to it marked, was given its two squares.
C15_Witness ==
    /\ GetMovesOf("knight")
    /\ pre.self.position = 63
    /\ Occupied(pre.obstacles) = Indices
    /\ MoveSet(call.result.moves) = {46, 53}

\* The squares next to position on the board.
KingSquares(position) ==
    {square \in Indices :
        /\ square # position
        /\ Abs(File(square) - File(position)) <= 1
        /\ Abs(Rank(square) - Rank(position)) <= 1}

\* C16: for a king on any square and any obstruction list, getMoves returns
\* exactly the squares of the board at most one file and one rank away other
\* than its own: 8 from a square off the edge, 5 from an edge square that is
\* no corner, 3 from a corner.
C16_KingSteps ==
    GetMovesOf("king") =>
        /\ ReturnedExactly(KingSquares(pre.self.position))
        /\ pre.self.position \in Inner => Len(call.result.moves) = 8
        /\ pre.self.position \in Corners => Len(call.result.moves) = 3
        /\ pre.self.position \notin (Inner \cup Corners)
               => Len(call.result.moves) = 5

\* A king on h4, on the right-hand edge, with every square marked, was given
\* its five squares.
C16_Witness ==
    /\ GetMovesOf("king")
    /\ pre.self.position = 39
    /\ Occupied(pre.obstacles) = Indices
    /\ MoveSet(call.result.moves) = {30, 31, 38, 46, 47}

\* C18 (as claimed): getMoves of every kind of piece, of either colour, on
\* every square and with every obstruction list of 64 entries returns without
\* raising, and every square returned is a square of the board other than the
\* piece's own; a pawn on its last rank is returned no square.
C18_GetMovesNeverRaises ==
    call.op = "getMoves" =>
        /\ call.result.exc = "None"
        /\ \A square \in MoveSet(call.result.moves) :
               square \in Indices /\ square # pre.self.position
        /\ (pre.self.kind = "pawn" /\ Ahead(pre.self) \notin Indices)
               => call.result.moves = NoMoves

\* ------------------------------------------------ the calls of the conversions

\* The algebraic squares a1..h8.
AlgebraicSquares ==
    {<<LowerCase[f], DecimalDigits[r + 1]>> :
         f \in 1..boardSideLength, r \in 1..boardSideLength}

\* The same squares with the file letter in upper case.
UpperCaseSquares ==
    {<<UpperCase[f], DecimalDigits[r + 1]>> :
         f \in 1..boardSideLength, r \in 1..boardSideLength}

\* The squares the conversion is given: those of the board in either case,
\* one with a rank of two digits, and one too short to be a square.
GivenSquares ==
    AlgebraicSquares \cup UpperCaseSquares \cup {<<"a", "1", "0">>, <<"a">>}

\* A call of a conversion: its argument, what it returned and the exception
\* it raised.
Conversion(op, arg, result, exc) ==
    [op |-> op, arg |-> arg, result |-> result, exc |-> exc]

\* A square or an index is given; nothing has been called.
InitConvert ==
    /\ NoBoard
    /\ ncalls = 0
    /\ \/ \E square \in GivenSquares :
              call = Conversion("givenSquare", square, square, "None")
       \/ \E index \in Indices :
              call = Conversion("givenIndex", index, index, "None")
    /\ pre = call

\* The state after a call of a conversion, with the call before it kept in pre.
Converted(conversion) ==
    /\ call' = conversion
    /\ pre' = call
    /\ ncalls' = ncalls + 1
    /\ UNCHANGED <<boardPieces, castling, playerTurn, enPassantSquare,
                   fiftyMovesClock, fullMoveClock>>

\* What a call convertSquareToIndex(square) that ended as r is recorded as.
SquareConverted(square, r) ==
    Conversion("convertSquareToIndex", square, r.value, r.exc)

\* One call of board.convertSquareToIndex, of the square last given or
\* returned.
ConvertSquareToIndex ==
    /\ ncalls < MaxCalls
    /\ call.exc = "None"
    /\ call.op \in {"givenSquare", "convertIndexToSquare"}
    /\ Converted(SquareConverted(call.result,
                                 convertSquareToIndex(boardSideLength, call.result)))

\* One call of board.convertIndexToSquare, of the index last given or
\* returned.
ConvertIndexToSquare ==
    /\ ncalls < MaxCalls
    /\ call.exc = "None"
    /\ call.op \in {"givenIndex", "convertSquareToIndex"}
    /\ Converted(Conversion("convertIndexToSquare", call.result,
                            convertIndexToSquare(boardSideLength, call.result),
                            "None"))

NextConvert == ConvertSquareToIndex \/ ConvertIndexToSquare

SpecConvert == InitConvert /\ [][NextConvert]_vars

\* C12: on the 8x8 board convertSquareToIndex maps the square of file letter
\* f and rank r to N * (N - r) + (f - 'a'); convertIndexToSquare of that
\* index gives the square back, for every square a1..h8; and
\* convertSquareToIndex of convertIndexToSquare(i) gives i back, for every
\* index i in [0, 64).
C12_ConversionRoundTrip ==
    /\ call.op = "convertSquareToIndex" =>
           \A f \in 1..boardSideLength, r \in 1..boardSideLength :
               call.arg = <<LowerCase[f], DecimalDigits[r + 1]>> =>
                   /\ call.exc = "None"
                   /\ call.result = (boardSideLength * (boardSideLength - r)) + (f - 1)
    /\ (call.op = "convertIndexToSquare" /\ pre.op = "convertSquareToIndex")
           => (pre.arg \in AlgebraicSquares => call.result = pre.arg)
    /\ (call.op = "convertSquareToIndex" /\ pre.op = "convertIndexToSquare")
           => (pre.arg \in Indices => call.exc = "None" /\ call.result = pre.arg)

\* The square h1 was converted to the index 63 and that index back to h1.
C12_Witness ==
    /\ call.op = "convertIndexToSquare"
    /\ pre.op = "convertSquareToIndex"
    /\ pre.arg = <<"h", "1">>
    /\ pre.result = 63
    /\ call.arg = 63
    /\ call.result = <<"h", "1">>

====
